---- MODULE Spec2Model ----
(***************************************************************************)
(* Model of elf/segmentation/workflows.py: the edge-classification and     *)
(* multicut orchestration pipeline (_compute_watershed, _compute_features, *)
(* _compute_features_and_labels, edge_training, multicut_segmentation,     *)
(* multicut_workflow).                                                     *)
(*                                                                         *)
(* Arrays are abstracted to their shape and to the content the             *)
(* collaborators read from them: a watershed (or the boundary map it is    *)
(* computed from) carries the number of RAG edges E and the set z of       *)
(* through-plane edges, a label volume carries the set drop of edges the   *)
(* validity mask rejects.  A row of a per-edge array is the pair           *)
(* <<sample, edge>> it was computed for, so that order and alignment of    *)
(* rows can be compared.                                                   *)
(***************************************************************************)
EXTENDS Integers, Sequences, FiniteSets, TLC

VARIABLES
    pc,      \* "call": args drawn, handler not yet run; "done": handler returned or raised
    args,    \* the arguments of the (last) call
    out,     \* its outcome: status, error, collaborator calls in order, return value
    heap,    \* the dict/set objects that outlive a call (module constants, shared defaults, caller's dicts)
    ncalls   \* the number of calls made so far

vars == <<pc, args, out, heap, ncalls>>

-----------------------------------------------------------------------------
(* Bounds *)

MaxRows == 3        \* edges of one RAG, and pooled edges of one batch
MaxSamples == 2     \* samples of a batch
MaxDim == 2         \* extent of an array dimension
MaxCalls == 2       \* calls of one sequence of calls

-----------------------------------------------------------------------------
(* Values *)

None == "None"
NoneObj == [kind |-> "None"]

IsNone(x) == x.kind = "None"

Array(shape) == [kind |-> "array", shape |-> shape]

\* a boundary map or watershed: E RAG edges, z the through-plane edges
WsArray(shape, E, z) == [kind |-> "array", shape |-> shape, E |-> E, z |-> z]

\* a label volume: drop the edges whose label is the ignore label
LabelArray(shape, drop) == [kind |-> "array", shape |-> shape, drop |-> drop]

List(items) == [kind |-> "list", items |-> items]

\* x[i] of an ndarray: the i-th slice along the first axis
Slice(x, i) == [x EXCEPT !.shape = Tail(x.shape)]

\* len(x) of a list or an ndarray
len(x) == IF x.kind = "list" THEN Len(x.items) ELSE x.shape[1]

\* x[i] (0-based i in the code, 1-based here) of a list or an ndarray
Item(x, i) == IF x.kind = "list" THEN x.items[i] ELSE Slice(x, i)

\* a boolean mask applied to a sequence of rows: rows[mask]
RECURSIVE ApplyMask(_, _)
ApplyMask(rows, mask) ==
    IF rows = <<>> THEN <<>>
    ELSE (IF Head(mask) THEN <<Head(rows)>> ELSE <<>>) \o ApplyMask(Tail(rows), Tail(mask))

\* (variant of Concatenate: the parts joined last to first)
RECURSIVE ConcatenateReversed(_)
ConcatenateReversed(parts) ==
    IF parts = <<>> THEN <<>> ELSE ConcatenateReversed(Tail(parts)) \o Head(parts)

\* np.concatenate(parts, axis=0) of a non-empty list of row sequences
RECURSIVE Concatenate(_)
Concatenate(parts) ==
    IF parts = <<>> THEN <<>> ELSE Head(parts) \o Concatenate(Tail(parts))

\* dict.pop(key, None): the dict without the key
DictWithout(d, key) == [k \in DOMAIN d \ {key} |-> d[k]]

\* dict.pop(key, None): the value popped
DictGet(d, key) == IF key \in DOMAIN d THEN d[key] ELSE None

-----------------------------------------------------------------------------
(* Module constants, workflows.py lines 9-13 *)

FEATURE_NAMES == {"raw-edge-features", "raw-region-features", "boundary-edge-features"}

DEFAULT_WS_KWARGS ==
    [threshold |-> "0.25", sigma_seeds |-> "2.0", sigma_weights |-> "2.0",
     min_size |-> "100", alpha |-> "0.9", pixel_pitch |-> None,
     apply_nonmax_suppression |-> "False"]

DEFAULT_RF_KWARGS == [ignore_label |-> None, n_estimators |-> "200", max_depth |-> "10"]

\* the objects alive before a call: the module constants, the default
\* solver_kwargs dicts of multicut_segmentation and multicut_workflow (created
\* once, at definition time), and a dict owned by the caller
InitialHeap(user_rf_kwargs) ==
    [FEATURE_NAMES |-> FEATURE_NAMES,
     DEFAULT_WS_KWARGS |-> DEFAULT_WS_KWARGS,
     DEFAULT_RF_KWARGS |-> DEFAULT_RF_KWARGS,
     segmentation_solver_kwargs |-> <<>>,
     workflow_solver_kwargs |-> <<>>,
     user_rf_kwargs |-> user_rf_kwargs]

-----------------------------------------------------------------------------
(* Outcomes *)

Raise(error, message, shapes, calls) ==
    [status |-> "error", error |-> error, message |-> message, shapes |-> shapes,
     calls |-> calls, ret |-> NoneObj]

Return(calls, ret) ==
    [status |-> "ok", error |-> None, message |-> None, shapes |-> <<>>,
     calls |-> calls, ret |-> ret]

NotRun == [status |-> "none", error |-> None, message |-> None, shapes |-> <<>>,
           calls |-> <<>>, ret |-> NoneObj]

-----------------------------------------------------------------------------
(* Collaborators (elf.segmentation.watershed, .features), by the interface *)
(* the pipeline relies on                                                  *)

\* stacked_watershed / distance_transform_watershed: labels of the shape of the boundary map
watershed_of(boundaries) == WsArray(boundaries.shape, boundaries.E, boundaries.z)

\* compute_rag(watershed): edges 1..numberOfEdges of sample sid
compute_rag(watershed, sid) ==
    [kind |-> "rag", sid |-> sid, shape |-> watershed.shape, numberOfEdges |-> watershed.E]

\* one row per RAG edge, in edge order
EdgeRows(rag) == [e \in 1..rag.numberOfEdges |-> <<rag.sid, e>>]

\* compute_z_edge_mask(rag, watershed): one boolean per RAG edge
compute_z_edge_mask(rag, watershed) == [e \in 1..rag.numberOfEdges |-> e \in watershed.z]

-----------------------------------------------------------------------------
(* _compute_watershed, lines 23-27 *)

_compute_watershed(boundaries, use_2dws, ws_kwargs) ==
    [ret |-> watershed_of(boundaries),
     calls |-> << [fn |-> IF use_2dws THEN "stacked_watershed"
                                      ELSE "distance_transform_watershed",
                   kwargs |-> ws_kwargs] >>]

-----------------------------------------------------------------------------
(* _compute_features, lines 30-63 *)

\* line 31: the feature-name check
InvalidFeatureSet(feature_names, h) ==
    (Cardinality(h.FEATURE_NAMES \ feature_names) > 0) \/ (Cardinality(feature_names) = 0)

\* (variant of ShapeMismatch: the watershed's shape is not compared)
ShapeMismatchRawBoundariesOnly(raw, boundaries, watershed) ==
    IF raw.shape # boundaries.shape THEN <<raw.shape, boundaries.shape>> ELSE <<>>

\* lines 33-36: the shape checks; <<>> when both pass, else the two shapes named
ShapeMismatch(raw, boundaries, watershed) ==
    IF raw.shape # boundaries.shape THEN <<raw.shape, boundaries.shape>>
    ELSE IF raw.shape # watershed.shape THEN <<raw.shape, watershed.shape>>
    ELSE <<>>

\* lines 40-59: the feature blocks in the order they are appended
FeatureBlocks(feature_names) ==
    (IF "raw-edge-features" \in feature_names THEN <<"raw-edge-features">> ELSE <<>>)
    \o (IF "boundary-edge-features" \in feature_names THEN <<"boundary-edge-features">> ELSE <<>>)
    \o (IF "raw-region-features" \in feature_names THEN <<"raw-region-features">> ELSE <<>>)
    \o <<"edge_len">>

\* the kernel called for a block
BlockCall(block, use_2dws) ==
    IF block = "raw-edge-features"
        THEN [fn |-> "compute_boundary_features_with_filters", source |-> "raw", use_2dws |-> use_2dws]
    ELSE IF block = "boundary-edge-features"
        THEN [fn |-> "compute_boundary_features_with_filters", source |-> "boundaries", use_2dws |-> use_2dws]
    ELSE IF block = "raw-region-features"
        THEN [fn |-> "compute_region_features", source |-> "raw", use_2dws |-> FALSE]
    ELSE [fn |-> "compute_boundary_mean_and_length", source |-> "raw", use_2dws |-> FALSE]

_compute_features(raw, boundaries, watershed, feature_names, use_2dws, sid, h) ==
    IF InvalidFeatureSet(feature_names, h)
        THEN Raise("ValueError", "Invalid feature set", <<>>, <<>>)
    ELSE IF raw.shape = boundaries.shape /\ watershed.kind = "list"
        \* line 35 reads watershed.shape: a list has none
        THEN Raise("AttributeError", "list has no attribute shape", <<>>, <<>>)
    ELSE IF ShapeMismatch(raw, boundaries, watershed) # <<>>
        THEN Raise("ValueError", "Shapes do not match",
                   ShapeMismatch(raw, boundaries, watershed), <<>>)
    ELSE
        LET rag == compute_rag(watershed, sid)
            blocks == FeatureBlocks(feature_names)
            calls == << [fn |-> "compute_rag", source |-> "watershed", use_2dws |-> FALSE] >>
                     \o [b \in 1..Len(blocks) |-> BlockCall(blocks[b], use_2dws)]
            \* np.concatenate(features, axis=1): every block has one row per edge
            features == [rows |-> EdgeRows(rag), cols |-> blocks]
        IN  IF Len(features.rows) # rag.numberOfEdges
                THEN Raise("AssertionError", None, <<>>, calls)
            ELSE Return(calls, [kind |-> "rag_features", rag |-> rag, features |-> features])

-----------------------------------------------------------------------------
(* Collaborators (elf.segmentation.learning), by the interface of the      *)
(* specification, section 6                                                *)

\* compute_edge_labels(rag, labels, ...): one label per RAG edge, in edge order
compute_edge_labels(rag, labels) == EdgeRows(rag)

\* compute_edge_labels(rag, labels, ignore_label, n_threads)[1]: the validity mask
compute_edge_mask(rag, labels) == [e \in 1..rag.numberOfEdges |-> e \notin labels.drop]

\* the rows of a per-edge array a z-mask selects (through = TRUE: the through-plane rows)
RowsByZ(rows, z_edges, through) ==
    ApplyMask(rows, [j \in 1..Len(z_edges) |-> z_edges[j].z = through])

\* learn_edge_random_forest(features, labels, **rf_kwargs)
learn_edge_random_forest(features, edge_labels, rf_kwargs) ==
    [kind |-> "rf", features |-> features, labels |-> edge_labels, kwargs |-> rf_kwargs]

\* learn_random_forests_for_xyz_edges(features, labels, z_edges, **rf_kwargs):
\* the in-plane rows train the first classifier, the through-plane rows the second
learn_random_forests_for_xyz_edges(features, edge_labels, z_edges, rf_kwargs) ==
    [kind |-> "rf_pair",
     xy |-> learn_edge_random_forest(RowsByZ(features, z_edges, FALSE),
                                     RowsByZ(edge_labels, z_edges, FALSE), rf_kwargs),
     z |-> learn_edge_random_forest(RowsByZ(features, z_edges, TRUE),
                                    RowsByZ(edge_labels, z_edges, TRUE), rf_kwargs)]

-----------------------------------------------------------------------------
(* _compute_features_and_labels, lines 66-81 *)

\* lines 76-79: the z-mask of one sample, each entry with the edge it describes
SampleZEdges(rag, watershed, use_2dws) ==
    IF use_2dws
        THEN [e \in 1..rag.numberOfEdges |->
                 [row |-> <<rag.sid, e>>, z |-> compute_z_edge_mask(rag, watershed)[e]]]
    ELSE <<>>

_compute_features_and_labels(raw, boundaries, watershed, labels, use_2dws, feature_names, ignore_label, sid, h) ==
    LET \* lines 68-81, given what line 67 returned
        Labelled(cf) ==
            IF cf.status # "ok" THEN cf
            ELSE Return(cf.calls
                        \o << [fn |-> "compute_edge_labels", ignore_label |-> ignore_label] >>
                        \o (IF use_2dws THEN << [fn |-> "compute_z_edge_mask"] >> ELSE <<>>),
                        [kind |-> "features_labels",
                         features |->
                             IF ignore_label = None THEN cf.ret.features.rows
                             ELSE ApplyMask(cf.ret.features.rows,
                                            compute_edge_mask(cf.ret.rag, labels)),
                         edge_labels |->
                             IF ignore_label = None THEN compute_edge_labels(cf.ret.rag, labels)
                             ELSE ApplyMask(compute_edge_labels(cf.ret.rag, labels),
                                            compute_edge_mask(cf.ret.rag, labels)),
                         z_edges |-> SampleZEdges(cf.ret.rag, watershed, use_2dws)])
    IN  Labelled(_compute_features(raw, boundaries, watershed, feature_names, use_2dws, sid, h))

-----------------------------------------------------------------------------
(* edge_training, lines 84-144 *)

\* (variant of deepcopy: rf_kwargs = learning_kwargs, the local name bound to the
\* caller's object)
NoCopy(h, ref) == [heap |-> h, ref |-> ref]

\* line 93: rf_kwargs = deepcopy(learning_kwargs): a new object bound to the local name
deepcopy(h, ref) == [heap |-> h @@ ("rf_kwargs" :> h[ref]), ref |-> "rf_kwargs"]

\* (variant of pop_ignore_label: rf_kwargs.get('ignore_label'), the entry left in place)
get_ignore_label(h, ref) == [heap |-> h, value |-> DictGet(h[ref], "ignore_label")]

\* line 94: rf_kwargs.pop('ignore_label', None) on the object rf_kwargs names
pop_ignore_label(h, ref) ==
    [heap |-> [k \in DOMAIN h |-> IF k = ref THEN DictWithout(h[k], "ignore_label") ELSE h[k]],
     value |-> DictGet(h[ref], "ignore_label")]

\* the objects that outlive the call: the locals of the frame are gone
AfterCall(h0, h) == [k \in DOMAIN h0 |-> h[k]]

\* lines 100-101, 115-118: the oversegmentation of one sample
SampleWatershed(a, h, boundaries, train_id) ==
    IF IsNone(a.watershed)
        THEN _compute_watershed(boundaries, a.use_2dws, h[a.ws_kwargs])
    ELSE [ret |-> IF train_id = 0 THEN a.watershed ELSE Item(a.watershed, train_id),
          calls |-> <<>>]

\* lines 111-128: the loop over the samples from train_id on; acc holds the
\* per-sample arrays appended so far and the collaborator calls made
RECURSIVE TrainLoop(_, _, _, _, _)
TrainLoop(a, h, ignore_label, train_id, acc) ==
    IF train_id > len(a.raw) THEN acc
    ELSE
    LET this_raw == Item(a.raw, train_id)
        this_boundaries == Item(a.boundaries, train_id)
        this_labels == Item(a.labels, train_id)
        \* lines 124-128, given what the call of lines 120-123 returned
        Appended(calls, fl) ==
            IF fl.status # "ok" THEN [fl EXCEPT !.calls = calls \o @]
            ELSE TrainLoop(a, h, ignore_label, train_id + 1,
                           [status |-> "ok", calls |-> calls \o fl.calls,
                            features |-> Append(acc.features, fl.ret.features),
                            edge_labels |-> Append(acc.edge_labels, fl.ret.edge_labels),
                            z_edges |-> IF a.use_2dws
                                            THEN Append(acc.z_edges, fl.ret.z_edges)
                                        ELSE acc.z_edges])
        \* lines 120-128, given the oversegmentation of lines 115-118
        Sample(ws) ==
            Appended(acc.calls \o ws.calls,
                     _compute_features_and_labels(this_raw, this_boundaries, ws.ret,
                                                  this_labels, a.use_2dws, a.feature_names,
                                                  ignore_label, train_id, h))
    IN  Sample(SampleWatershed(a, h, this_boundaries, train_id))

\* lines 96-133: features, edge labels and z-mask of the call, or the error raised
TrainingData(a, h, ignore_label) ==
    IF a.raw.kind = "array" THEN
        IF (a.boundaries.kind # "array") \/ (a.labels.kind # "array")
            THEN Raise("ValueError",
                       "Expect raw data, boundaries and labels to be either all numpy arrays or lists",
                       <<>>, <<>>)
        ELSE
        LET Single(calls, fl) ==
                IF fl.status # "ok" THEN [fl EXCEPT !.calls = calls \o @]
                ELSE [status |-> "ok", calls |-> calls \o fl.calls,
                      features |-> fl.ret.features, edge_labels |-> fl.ret.edge_labels,
                      z_edges |-> fl.ret.z_edges]
            \* lines 102-104, given the oversegmentation of lines 100-101
            Sample(ws) ==
                Single(ws.calls,
                       _compute_features_and_labels(a.raw, a.boundaries, ws.ret, a.labels,
                                                    a.use_2dws, a.feature_names,
                                                    ignore_label, 1, h))
        IN  Sample(SampleWatershed(a, h, a.boundaries, 0))
    ELSE
        IF ~(len(a.raw) = len(a.boundaries) /\ len(a.boundaries) = len(a.labels))
            THEN Raise("ValueError", "Expect same number of raw data, boundary and label arrays",
                       <<>>, <<>>)
        ELSE IF ~IsNone(a.watershed) /\ len(a.watershed) # len(a.raw)
            THEN Raise("ValueError", "Expect same number of watershed arrays as raw data",
                       <<>>, <<>>)
        ELSE
        LET \* lines 130-133, given the lists the loop has filled
            Pooled(acc) ==
                IF acc.status # "ok" THEN acc
                ELSE IF acc.features = <<>>
                    \* np.concatenate of an empty list
                    THEN Raise("ValueError", "need at least one array to concatenate",
                               <<>>, acc.calls)
                ELSE [acc EXCEPT !.features = Concatenate(acc.features),
                                 !.edge_labels = Concatenate(acc.edge_labels),
                                 !.z_edges = Concatenate(acc.z_edges)]
        IN  Pooled(TrainLoop(a, h, ignore_label, 1,
                             [status |-> "ok", calls |-> <<>>, features |-> <<>>,
                              edge_labels |-> <<>>, z_edges |-> <<>>]))

\* lines 135-144: the assertions and the classifier training
TrainClassifier(a, d, rf_kwargs) ==
    IF Len(d.features) # Len(d.edge_labels)
        THEN Raise("AssertionError", "features, edge_labels", <<>>, d.calls)
    ELSE IF a.use_2dws THEN
        IF Len(d.features) # Len(d.z_edges)
            THEN Raise("AssertionError", "features, z_edges", <<>>, d.calls)
        ELSE Return(d.calls \o << [fn |-> "learn_random_forests_for_xyz_edges",
                                   features |-> d.features, edge_labels |-> d.edge_labels,
                                   z_edges |-> d.z_edges, kwargs |-> rf_kwargs] >>,
                    learn_random_forests_for_xyz_edges(d.features, d.edge_labels,
                                                       d.z_edges, rf_kwargs))
    ELSE Return(d.calls \o << [fn |-> "learn_edge_random_forest",
                               features |-> d.features, edge_labels |-> d.edge_labels,
                               kwargs |-> rf_kwargs] >>,
                learn_edge_random_forest(d.features, d.edge_labels, rf_kwargs))

\* the whole call: its outcome and the heap it leaves
edge_training(a, h) ==
    LET \* lines 135-144, given the pooled arrays
        Trained(d, rf_kwargs) == IF d.status # "ok" THEN d ELSE TrainClassifier(a, d, rf_kwargs)
        \* lines 96-144, given the heap and the value line 94 left
        Body(popped, ref) ==
            [out |-> Trained(TrainingData(a, popped.heap, popped.value), popped.heap[ref]),
             heap |-> AfterCall(h, popped.heap)]
        \* lines 94-144, given the copy of line 93
        Popped(copied) == Body(pop_ignore_label(copied.heap, copied.ref), copied.ref)
    IN  Popped(deepcopy(h, a.learning_kwargs))

-----------------------------------------------------------------------------
(* Collaborators (elf.segmentation.multicut, .learning, .features), by the *)
(* interface of the specification, section 6                               *)

\* the keys of the solver registry
KnownSolvers == {"kernighan-lin", "greedy-additive"}

\* get_multicut_solver(key): the registered solver, or a lookup error
get_multicut_solver(key) ==
    IF key \in KnownSolvers
        THEN Return(<< [fn |-> "get_multicut_solver", key |-> key] >>,
                    [kind |-> "callable", name |-> key])
    ELSE Raise("LookupError", key, <<>>, << [fn |-> "get_multicut_solver", key |-> key] >>)

\* predict_edge_random_forest(rf, features): one probability per row
predict_edge_random_forest(features) ==
    [j \in 1..Len(features) |-> [row |-> features[j], by |-> "rf"]]

\* predict_edge_random_forests_for_xyz_edges(rf_xy, rf_z, features, z_edges):
\* one probability per row, of the classifier the z-mask selects
predict_edge_random_forests_for_xyz_edges(features, z_edges) ==
    [j \in 1..Len(features) |->
        [row |-> features[j], by |-> IF z_edges[j].z THEN "rf_z" ELSE "rf_xy"]]

\* compute_edge_costs(probs, edge_sizes, beta, z_edge_mask, weighting_scheme): one cost per probability
compute_edge_costs(edge_probs, beta, weighting_scheme) ==
    [j \in 1..Len(edge_probs) |->
        [row |-> edge_probs[j].row, by |-> edge_probs[j].by, beta |-> beta,
         weighting_scheme |-> weighting_scheme]]

\* solver(rag, costs, segmentation=watershed, **solver_kwargs): a node labeling
solve(solver, rag, costs, solver_kwargs) ==
    [kind |-> "node_labels", solver |-> solver.name, rag |-> rag, costs |-> costs,
     kwargs |-> solver_kwargs]

\* project_node_labels_to_pixels(rag, node_labels): a label volume of the shape of the watershed
project_node_labels_to_pixels(rag, node_labels) ==
    [kind |-> "array", shape |-> rag.shape, node_labels |-> node_labels]

-----------------------------------------------------------------------------
(* multicut_segmentation, lines 147-199 *)

\* lines 159-164: the solver the argument names, or the error raised
ResolveSolver(multicut_solver) ==
    IF multicut_solver.kind = "str" THEN get_multicut_solver(multicut_solver.name)
    ELSE IF multicut_solver.kind # "callable"
        THEN Raise("ValueError", "Invalid multicut solver", <<>>, <<>>)
    ELSE Return(<<>>, multicut_solver)

\* (variant of SegmentationResult: the solver's node labeling returned as the segmentation)
SegmentationResultUnprojected(return_intermediates, watershed, rag, features, costs, node_labels, seg) ==
    IF return_intermediates
        THEN [kind |-> "dict",
              items |-> [watershed |-> watershed, rag |-> rag, features |-> features,
                         costs |-> costs, node_labels |-> node_labels,
                         segmentation |-> node_labels]]
    ELSE node_labels

\* lines 191-199: what the call returns
SegmentationResult(return_intermediates, watershed, rag, features, costs, node_labels, seg) ==
    IF return_intermediates
        THEN [kind |-> "dict",
              items |-> [watershed |-> watershed, rag |-> rag, features |-> features,
                         costs |-> costs, node_labels |-> node_labels, segmentation |-> seg]]
    ELSE seg

\* lines 166-199: the pipeline after the solver is resolved
SegmentWith(a, h, solver, calls0) ==
    LET ws == IF IsNone(a.watershed)
                  THEN _compute_watershed(a.boundaries, a.use_2dws, h[a.ws_kwargs])
              ELSE [ret |-> a.watershed, calls |-> <<>>]
        cf == _compute_features(a.raw, a.boundaries, ws.ret, a.feature_names, a.use_2dws, 1, h)
    IN  IF cf.status # "ok" THEN [cf EXCEPT !.calls = calls0 \o ws.calls \o cf.calls]
        ELSE
        LET rag == cf.ret.rag
            features == cf.ret.features
            z_edges == SampleZEdges(rag, ws.ret, a.use_2dws)
            edge_probs == IF a.use_2dws
                              THEN predict_edge_random_forests_for_xyz_edges(features.rows, z_edges)
                          ELSE predict_edge_random_forest(features.rows)
            costs == compute_edge_costs(edge_probs, a.beta, a.weighting_scheme)
            node_labels == solve(solver, rag, costs, h[a.solver_kwargs])
            seg == project_node_labels_to_pixels(rag, node_labels)
            calls == calls0 \o ws.calls \o cf.calls
                     \o (IF a.use_2dws
                             THEN << [fn |-> "compute_z_edge_mask"],
                                     [fn |-> "predict_edge_random_forests_for_xyz_edges"] >>
                         ELSE << [fn |-> "predict_edge_random_forest"] >>)
                     \o << [fn |-> "compute_boundary_mean_and_length"],
                           [fn |-> "compute_edge_costs", probs |-> edge_probs],
                           [fn |-> "solver", solver |-> solver.name, rag |-> rag,
                            costs |-> costs, ret |-> node_labels],
                           [fn |-> "project_node_labels_to_pixels", rag |-> rag,
                            node_labels |-> node_labels, ret |-> seg] >>
        IN  Return(calls, SegmentationResult(a.return_intermediates, ws.ret, rag, features,
                                             costs, node_labels, seg))

\* (variant of multicut_segmentation: the oversegmentation computed before the solver
\* is resolved)
multicut_segmentation_resolving_late(a, h) ==
    LET solver == ResolveSolver(a.multicut_solver)
        ws == IF IsNone(a.watershed)
                  THEN _compute_watershed(a.boundaries, a.use_2dws, h[a.ws_kwargs])
              ELSE [ret |-> a.watershed, calls |-> <<>>]
    IN  [out |-> IF solver.status # "ok" THEN [solver EXCEPT !.calls = ws.calls \o @]
                 ELSE SegmentWith(a, h, solver.ret, solver.calls),
         heap |-> h]

\* the whole call: its outcome and the heap it leaves
multicut_segmentation(a, h) ==
    LET solver == ResolveSolver(a.multicut_solver)
    IN  [out |-> IF solver.status # "ok" THEN solver
                 ELSE SegmentWith(a, h, solver.ret, solver.calls),
         heap |-> h]

-----------------------------------------------------------------------------
(* multicut_workflow, lines 202-241 *)

multicut_workflow(a, h) ==
    LET \* line 241, given what the two calls returned
        Workflow(trained, segmented) ==
            [out |-> [segmented.out EXCEPT !.calls = trained.out.calls \o @],
             heap |-> segmented.heap]
        \* lines 236-241, given what edge_training returned
        Segmented(trained) ==
            IF trained.out.status # "ok" THEN trained
            ELSE Workflow(trained, multicut_segmentation(
                [op |-> "multicut_segmentation", raw |-> a.raw, boundaries |-> a.boundaries,
                 rf |-> trained.out.ret, use_2dws |-> a.use_2dws,
                 multicut_solver |-> a.multicut_solver, watershed |-> a.watershed,
                 feature_names |-> a.feature_names, weighting_scheme |-> a.weighting_scheme,
                 ws_kwargs |-> a.ws_kwargs, solver_kwargs |-> a.solver_kwargs,
                 beta |-> a.beta, return_intermediates |-> FALSE], trained.heap))
    IN  Segmented(edge_training(
            [op |-> "edge_training", raw |-> a.train_raw, boundaries |-> a.train_boundaries,
             labels |-> a.train_labels, use_2dws |-> a.use_2dws,
             watershed |-> a.train_watershed, feature_names |-> a.feature_names,
             ws_kwargs |-> a.ws_kwargs, learning_kwargs |-> a.learning_kwargs], h))

-----------------------------------------------------------------------------
(* Arguments *)

Shapes == {<<d>> : d \in 1..MaxDim}

Tokens == FEATURE_NAMES \cup {"unknown-feature"}

SampleShape == <<MaxDim>>

\* dicts a caller passes as learning_kwargs: with an ignore label, and without the key
UserRfKwargs ==
    {[ignore_label |-> "0", n_estimators |-> "200", max_depth |-> "10"],
     [n_estimators |-> "50"]}

\* the edges of a batch whose sample i has Es[i] edges
BatchRows(Es) == UNION {{<<i, e>> : e \in 1..Es[i]} : i \in DOMAIN Es}

\* the edges of sample i among rows
EdgesOf(rows, i) == {r[2] : r \in {q \in rows : q[1] = i}}

\* what multicut_solver may be: a registered key, an unknown key, a callable, a number
SolverArgs ==
    {[kind |-> "str", name |-> "kernighan-lin"], [kind |-> "str", name |-> "unknown-solver"],
     [kind |-> "callable", name |-> "custom_solver"], [kind |-> "int", name |-> "5"]}

\* the classifier artifact that matches the slice-wise flag
GivenRf(use_2dws) == IF use_2dws THEN [kind |-> "rf_pair"] ELSE [kind |-> "rf"]

ComputeFeaturesArgs(sr, sb, sw, E, fn, u) ==
    [op |-> "_compute_features",
     raw |-> Array(sr), boundaries |-> WsArray(sb, E, {}), watershed |-> WsArray(sw, E, {}),
     feature_names |-> fn, use_2dws |-> u]

TrainingArgs(u, raw, boundaries, labels, watershed, lk) ==
    [op |-> "edge_training", use_2dws |-> u, raw |-> raw, boundaries |-> boundaries,
     labels |-> labels, watershed |-> watershed, feature_names |-> FEATURE_NAMES,
     ws_kwargs |-> "DEFAULT_WS_KWARGS", learning_kwargs |-> lk]

\* a batch as lists: sample i has Es[i] edges, those in zr through-plane, those in dr
\* rejected by the validity mask; the watershed supplied or not
BatchArgs(u, Es, zr, dr, given, lk) ==
    LET ws == List([i \in DOMAIN Es |-> WsArray(SampleShape, Es[i], EdgesOf(zr, i))])
    IN  TrainingArgs(u, List([i \in DOMAIN Es |-> Array(SampleShape)]), ws,
                     List([i \in DOMAIN Es |-> LabelArray(SampleShape, EdgesOf(dr, i))]),
                     IF given THEN ws ELSE NoneObj, lk)

\* the one sample of a batch of length 1, as arrays
SingleArgs(u, Es, zr, dr, given, lk) ==
    LET b == BatchArgs(u, Es, zr, dr, given, lk)
    IN  TrainingArgs(u, b.raw.items[1], b.boundaries.items[1], b.labels.items[1],
                     IF given THEN b.watershed.items[1] ELSE NoneObj, lk)

\* the values raw, boundaries, labels and watershed take in the arity cases:
\* a list of n arrays, or one array whose first dimension is n
ArityValues ==
    {List([i \in 1..n |-> [kind |-> "array", shape |-> SampleShape, E |-> 1, z |-> {},
                           drop |-> {}]]) : n \in 0..MaxSamples}
    \cup {[kind |-> "array", shape |-> <<n>> \o SampleShape, E |-> 1, z |-> {}, drop |-> {}] :
            n \in 1..MaxSamples}

SegmentationArgs(u, E, z, sr, sb, sw, solver, fn, ri) ==
    [op |-> "multicut_segmentation", raw |-> Array(sr),
     boundaries |-> WsArray(sb, E, z), rf |-> GivenRf(u), use_2dws |-> u,
     multicut_solver |-> solver,
     watershed |-> IF sw = <<>> THEN NoneObj ELSE WsArray(sw, E, z),
     feature_names |-> fn, weighting_scheme |-> None, ws_kwargs |-> "DEFAULT_WS_KWARGS",
     solver_kwargs |-> "segmentation_solver_kwargs", beta |-> "0.5",
     return_intermediates |-> ri]

WorkflowArgs(t, s) ==
    [op |-> "multicut_workflow",
     train_raw |-> t.raw, train_boundaries |-> t.boundaries, train_labels |-> t.labels,
     boundaries |-> s.boundaries, raw |-> s.raw, use_2dws |-> t.use_2dws,
     multicut_solver |-> s.multicut_solver, train_watershed |-> t.watershed,
     watershed |-> s.watershed, feature_names |-> FEATURE_NAMES, weighting_scheme |-> None,
     ws_kwargs |-> "DEFAULT_WS_KWARGS", learning_kwargs |-> "DEFAULT_RF_KWARGS",
     solver_kwargs |-> "workflow_solver_kwargs", beta |-> "0.5"]

RECURSIVE Total(_)
Total(Es) == IF Es = <<>> THEN 0 ELSE Head(Es) + Total(Tail(Es))

-----------------------------------------------------------------------------
(* Specification: one call of one operation on arguments drawn at the start *)

\* _compute_features on every feature-name set and every combination of shapes
DrawComputeFeatures ==
    \E sr \in Shapes, sb \in Shapes, sw \in Shapes, E \in 0..MaxRows,
       fn \in SUBSET Tokens, u \in BOOLEAN :
        /\ args = ComputeFeaturesArgs(sr, sb, sw, E, fn, u)
        /\ heap = InitialHeap(DEFAULT_RF_KWARGS)

\* edge_training on uniform inputs (one sample as arrays, or a batch as lists), with
\* the default learning_kwargs or with a dict of the caller
DrawPooling ==
    \E u \in BOOLEAN, given \in BOOLEAN, single \in BOOLEAN, k \in 0..MaxSamples,
       user \in UserRfKwargs \cup {DEFAULT_RF_KWARGS} :
        \E Es \in [1..k -> 0..MaxRows] :
            /\ Total(Es) <= MaxRows
            /\ single => k = 1
            /\ \E zr \in (IF u THEN SUBSET BatchRows(Es) ELSE {{}}),
                  dr \in (IF DictGet(user, "ignore_label") # None
                              THEN SUBSET BatchRows(Es) ELSE {{}}) :
                LET lk == IF user = DEFAULT_RF_KWARGS THEN "DEFAULT_RF_KWARGS"
                          ELSE "user_rf_kwargs"
                IN  /\ args = IF single THEN SingleArgs(u, Es, zr, dr, given, lk)
                              ELSE BatchArgs(u, Es, zr, dr, given, lk)
                    /\ heap = InitialHeap(user)

\* edge_training on every mix of lists and arrays
DrawArity ==
    \E r \in ArityValues, b \in ArityValues, l \in ArityValues,
       w \in ArityValues \cup {NoneObj} :
        /\ args = TrainingArgs(FALSE, r, b, l, w, "DEFAULT_RF_KWARGS")
        /\ heap = InitialHeap(DEFAULT_RF_KWARGS)

\* multicut_segmentation: shapes, edges, z-edges, solver and feature names vary
DrawSegmentation ==
    \E u \in BOOLEAN, E \in 0..MaxRows, sr \in Shapes, sb \in Shapes,
       sw \in Shapes \cup {<<>>}, solver \in SolverArgs, fn \in {FEATURE_NAMES, {}},
       ri \in BOOLEAN :
        \E z \in (IF u THEN SUBSET (1..E) ELSE {{}}) :
            /\ args = SegmentationArgs(u, E, z, sr, sb, sw, solver, fn, ri)
            /\ heap = InitialHeap(DEFAULT_RF_KWARGS)

Init ==
    /\ pc = "call"
    /\ out = NotRun
    /\ ncalls = 0
    /\ (DrawComputeFeatures \/ DrawPooling \/ DrawArity \/ DrawSegmentation)

ComputeFeatures ==
    /\ pc = "call"
    /\ args.op = "_compute_features"
    /\ out' = _compute_features(args.raw, args.boundaries, args.watershed,
                               args.feature_names, args.use_2dws, 1, heap)
    /\ pc' = "done"
    /\ ncalls' = ncalls + 1
    /\ UNCHANGED <<args, heap>>

EdgeTraining ==
    /\ pc = "call"
    /\ args.op = "edge_training"
    /\ LET r == edge_training(args, heap)
       IN  out' = r.out /\ heap' = r.heap
    /\ pc' = "done"
    /\ ncalls' = ncalls + 1
    /\ UNCHANGED args

MulticutSegmentation ==
    /\ pc = "call"
    /\ args.op = "multicut_segmentation"
    /\ LET r == multicut_segmentation(args, heap)
       IN  out' = r.out /\ heap' = r.heap
    /\ pc' = "done"
    /\ ncalls' = ncalls + 1
    /\ UNCHANGED args

Next == ComputeFeatures \/ EdgeTraining \/ MulticutSegmentation

Spec == Init /\ [][Next]_vars

-----------------------------------------------------------------------------
(* Specification: any sequence of calls with default parameters, each call  *)
(* running on the heap the calls before it left                             *)

InitDefaults ==
    /\ pc = "done"
    /\ args = [op |-> "none"]
    /\ out = NotRun
    /\ heap = InitialHeap(DEFAULT_RF_KWARGS)
    /\ ncalls = 0

\* the training calls of the sequences: samples of at most one edge
DefaultTrainingArgs ==
    UNION {UNION {{IF single THEN SingleArgs(u, Es, zr, {}, given, "DEFAULT_RF_KWARGS")
                   ELSE BatchArgs(u, Es, zr, {}, given, "DEFAULT_RF_KWARGS") :
                     zr \in (IF u THEN SUBSET BatchRows(Es) ELSE {{}}),
                     given \in BOOLEAN,
                     single \in (IF Len(Es) = 1 THEN BOOLEAN ELSE {FALSE})} :
                   Es \in UNION {[1..k -> 0..1] : k \in 0..MaxSamples}} : u \in BOOLEAN}

\* the inference calls of the sequences: arrays of one shape, at most one edge
DefaultSegmentationArgs ==
    {SegmentationArgs(u, E, {}, SampleShape, SampleShape, <<>>, solver, FEATURE_NAMES, ri) :
        u \in BOOLEAN, E \in 0..1, solver \in SolverArgs, ri \in BOOLEAN}

CallEdgeTraining ==
    \E a \in DefaultTrainingArgs :
        /\ ncalls < MaxCalls
        /\ args' = a
        /\ LET r == edge_training(a, heap)
           IN  out' = r.out /\ heap' = r.heap
        /\ pc' = "done"
        /\ ncalls' = ncalls + 1

CallMulticutSegmentation ==
    \E a \in DefaultSegmentationArgs :
        /\ ncalls < MaxCalls
        /\ args' = a
        /\ LET r == multicut_segmentation(a, heap)
           IN  out' = r.out /\ heap' = r.heap
        /\ pc' = "done"
        /\ ncalls' = ncalls + 1

CallMulticutWorkflow ==
    \E t \in {x \in DefaultTrainingArgs : IsNone(x.watershed) /\ x.raw.kind = "array"},
       s \in {x \in DefaultSegmentationArgs : ~x.return_intermediates} :
        /\ ncalls < MaxCalls
        /\ t.use_2dws = s.use_2dws
        /\ args' = WorkflowArgs(t, s)
        /\ LET r == multicut_workflow(WorkflowArgs(t, s), heap)
           IN  out' = r.out /\ heap' = r.heap
        /\ pc' = "done"
        /\ ncalls' = ncalls + 1

NextDefaults == CallEdgeTraining \/ CallMulticutSegmentation \/ CallMulticutWorkflow

SpecDefaults == InitDefaults /\ [][NextDefaults]_vars

-----------------------------------------------------------------------------
(* Properties *)

Done(op) == pc = "done" /\ args.op = op

ShapesAllEqual ==
    /\ args.raw.shape = args.boundaries.shape
    /\ args.raw.shape = args.watershed.shape
    /\ args.boundaries.shape = args.watershed.shape

\* the kernels of the pipeline: oversegmentation, RAG, features, labels, prediction,
\* cost transform, solver, projection, training
PipelineCalls ==
    {"stacked_watershed", "distance_transform_watershed", "compute_rag",
     "compute_boundary_features_with_filters", "compute_region_features",
     "compute_boundary_mean_and_length", "compute_edge_labels", "compute_z_edge_mask",
     "predict_edge_random_forest", "predict_edge_random_forests_for_xyz_edges",
     "compute_edge_costs", "solver", "project_node_labels_to_pixels",
     "learn_edge_random_forest", "learn_random_forests_for_xyz_edges"}

NoPipelineCall == \A j \in 1..Len(out.calls) : out.calls[j].fn \notin PipelineCalls

Trainers == {"learn_edge_random_forest", "learn_random_forests_for_xyz_edges"}

TrainCalls == {j \in 1..Len(out.calls) : out.calls[j].fn \in Trainers}

\* the call that trained the classifier of a successful edge_training
TrainCall == out.calls[CHOOSE j \in TrainCalls : TRUE]

\* the ignore label the call was configured with
ConfiguredIgnoreLabel == DictGet(heap[args.learning_kwargs], "ignore_label")

\* the oversegmentation of sample i of a training call (its only sample: i = 0)
WatershedOfSample(i) ==
    LET x == IF IsNone(args.watershed) THEN args.boundaries ELSE args.watershed
    IN  IF i = 0 THEN x ELSE Item(x, i)

Samples == IF args.raw.kind = "list" THEN 1..len(args.raw) ELSE {0}

\* the id rows of sample i carry
RowId(i) == IF i = 0 THEN 1 ELSE i

\* every (sample, edge) pair of the RAGs of a training call
AllEdges == UNION {{<<RowId(i), e>> : e \in 1..WatershedOfSample(i).E} : i \in Samples}

\* the (sample, edge) pairs the validity mask keeps
KeptEdges ==
    IF ConfiguredIgnoreLabel = None THEN AllEdges
    ELSE UNION {{<<RowId(i), e>> : e \in (1..WatershedOfSample(i).E)
                                          \ (IF i = 0 THEN args.labels ELSE Item(args.labels, i)).drop} :
                  i \in Samples}

\* rows in input list order of the samples and, within a sample, in edge order
InSampleOrder(rows) ==
    \A j \in 1..(Len(rows) - 1) :
        \/ rows[j][1] < rows[j + 1][1]
        \/ rows[j][1] = rows[j + 1][1] /\ rows[j][2] < rows[j + 1][2]

RowSet(rows) == {rows[j] : j \in 1..Len(rows)}

\* C1: _compute_features returns a matrix of E = rag.numberOfEdges rows for every
\* non-empty subset of the vocabulary, given raw, boundaries and watershed of equal shape.
C1_EveryVocabularySubsetAccepted ==
    (/\ Done("_compute_features")
     /\ args.feature_names # {}
     /\ args.feature_names \subseteq FEATURE_NAMES
     /\ ShapesAllEqual)
    => (/\ out.status = "ok"
        /\ Len(out.ret.features.rows) = args.watershed.E
        /\ out.ret.rag.numberOfEdges = args.watershed.E)

\* C2: _compute_features raises, before the RAG is built or any kernel is called, for
\* every feature_names that is empty or holds a token outside the vocabulary.
C2_InvalidFeatureSetRejected ==
    (/\ Done("_compute_features")
     /\ (args.feature_names = {} \/ ~(args.feature_names \subseteq FEATURE_NAMES)))
    => (out.status = "error" /\ out.calls = <<>>)

\* raw, boundaries and labels all single arrays, or all lists of one length
UniformInputs ==
    \/ args.raw.kind = "array" /\ args.boundaries.kind = "array" /\ args.labels.kind = "array"
    \/ /\ args.raw.kind = "list" /\ args.boundaries.kind = "list" /\ args.labels.kind = "list"
       /\ Len(args.raw.items) = Len(args.boundaries.items)
       /\ Len(args.raw.items) = Len(args.labels.items)

\* C3: edge_training raises, before any collaborator is called, whenever raw, boundaries
\* and labels are not all single arrays or all lists of one length, and whenever a
\* supplied watershed list has another length than the list of samples.
C3_MixedInputsRejected ==
    (/\ Done("edge_training")
     /\ \/ ~UniformInputs
        \/ /\ UniformInputs /\ args.raw.kind = "list" /\ args.watershed.kind = "list"
           /\ Len(args.watershed.items) # Len(args.raw.items))
    => (out.status = "error" /\ out.calls = <<>>)

\* C4 as claimed: in a batch of k samples with E_i edges the pooled arrays handed to
\* training have sum(E_i) rows, in sample order and edge order, feature row j and
\* label j of the same (sample, edge).
C4_PooledRowsAreAllEdges ==
    (Done("edge_training") /\ args.raw.kind = "list" /\ out.status = "ok")
    => (/\ Len(TrainCall.features) = Cardinality(AllEdges)
        /\ Len(TrainCall.edge_labels) = Cardinality(AllEdges)
        /\ InSampleOrder(TrainCall.features)
        /\ \A j \in 1..Len(TrainCall.features) :
               TrainCall.edge_labels[j] = TrainCall.features[j])

\* C4 as amended: the pooled arrays hold one row per edge the validity mask keeps
\* (every edge, sum(E_i) rows, when no ignore label is configured), in sample order and
\* edge order, feature row j and label j of the same (sample, edge).
C4_PooledRowsAreKeptEdges ==
    (Done("edge_training") /\ args.raw.kind = "list" /\ out.status = "ok")
    => (/\ Len(TrainCall.features) = Cardinality(KeptEdges)
        /\ Len(TrainCall.edge_labels) = Cardinality(KeptEdges)
        /\ RowSet(TrainCall.features) = KeptEdges
        /\ (ConfiguredIgnoreLabel = None => Len(TrainCall.features) = Cardinality(AllEdges))
        /\ InSampleOrder(TrainCall.features)
        /\ \A j \in 1..Len(TrainCall.features) :
               TrainCall.edge_labels[j] = TrainCall.features[j])

\* a batch of two samples or more trained with an ignore label that dropped an edge
C4_Witness ==
    /\ Done("edge_training") /\ args.raw.kind = "list" /\ out.status = "ok"
    /\ Len(args.raw.items) >= 2
    /\ ConfiguredIgnoreLabel # None
    /\ Cardinality(KeptEdges) < Cardinality(AllEdges)
    /\ \E j \in 1..(Len(TrainCall.features) - 1) :
           TrainCall.features[j][1] < TrainCall.features[j + 1][1]
    /\ \E i \in Samples : WatershedOfSample(i).E >= 2

SolverUnresolvable ==
    \/ args.multicut_solver.kind = "str" /\ args.multicut_solver.name \notin KnownSolvers
    \/ args.multicut_solver.kind \notin {"str", "callable"}

\* C5: multicut_segmentation resolves the solver first: an unknown key or a
\* non-callable argument fails the call before any step of the pipeline, and nothing
\* is returned.
C5_SolverResolvedFirst ==
    (Done("multicut_segmentation") /\ SolverUnresolvable)
    => (out.status = "error" /\ NoPipelineCall /\ IsNone(out.ret))

\* an unknown key given with arguments the pipeline would otherwise accept
C5_Witness ==
    /\ Done("multicut_segmentation")
    /\ args.multicut_solver.kind = "str" /\ args.multicut_solver.name = "unknown-solver"
    /\ args.feature_names = FEATURE_NAMES
    /\ IsNone(args.watershed) /\ args.raw.shape = args.boundaries.shape
    /\ args.boundaries.E > 0
    /\ out.status = "error" /\ out.error = "LookupError"

\* C6: a successful edge_training trains exactly once: slice-wise, the dual trainer on
\* the pooled features, labels and z-mask, each row going to the classifier its z-mask
\* entry selects; else the single trainer on all rows and no z-mask; ignore_label is
\* not among the parameters forwarded.
C6_TrainsOnceAsFlagged ==
    (Done("edge_training") /\ out.status = "ok")
    => (/\ Cardinality(TrainCalls) = 1
        /\ "ignore_label" \notin DOMAIN TrainCall.kwargs
        /\ TrainCall.kwargs = DictWithout(heap[args.learning_kwargs], "ignore_label")
        /\ RowSet(TrainCall.features) = KeptEdges
        /\ TrainCall.edge_labels = TrainCall.features
        /\ IF args.use_2dws
              THEN /\ TrainCall.fn = "learn_random_forests_for_xyz_edges"
                   /\ out.ret.kind = "rf_pair"
                   /\ Len(TrainCall.z_edges) = Len(TrainCall.features)
                   /\ \A j \in 1..Len(TrainCall.features) :
                        LET row == TrainCall.features[j]
                            through == row[2] \in WatershedOfSample(
                                           IF args.raw.kind = "list" THEN row[1] ELSE 0).z
                        IN  /\ TrainCall.z_edges[j].row = row
                            /\ TrainCall.z_edges[j].z = through
                            /\ (row \in RowSet(out.ret.z.features)) = through
                            /\ (row \in RowSet(out.ret.xy.features)) = ~through
                   /\ Len(out.ret.xy.features) + Len(out.ret.z.features)
                          = Len(TrainCall.features)
                   /\ out.ret.xy.labels = out.ret.xy.features
                   /\ out.ret.z.labels = out.ret.z.features
              ELSE /\ TrainCall.fn = "learn_edge_random_forest"
                   /\ "z_edges" \notin DOMAIN TrainCall
                   /\ out.ret.kind = "rf"
                   /\ out.ret.features = TrainCall.features
                   /\ out.ret.labels = TrainCall.edge_labels)

\* a slice-wise batch trained by a caller's dict that carries an ignore label, with
\* rows for both classifiers
C6_Witness ==
    /\ Done("edge_training") /\ out.status = "ok" /\ args.use_2dws
    /\ args.raw.kind = "list"
    /\ args.learning_kwargs = "user_rf_kwargs"
    /\ "ignore_label" \in DOMAIN heap.user_rf_kwargs
    /\ out.ret.xy.features # <<>> /\ out.ret.z.features # <<>>

\* the call of the trace with the given function name
CallOf(fn) == out.calls[CHOOSE j \in 1..Len(out.calls) : out.calls[j].fn = fn]

\* C7: with return_intermediates the call returns exactly the keys watershed, rag,
\* features, costs, node_labels, segmentation: one cost per RAG edge and feature row in
\* edge order, node_labels what the solver returned for that rag and those costs,
\* segmentation their projection; without, it returns that segmentation alone.
C7_IntermediatesBundle ==
    (Done("multicut_segmentation") /\ out.status = "ok")
    => IF args.return_intermediates
          THEN /\ out.ret.kind = "dict"
               /\ DOMAIN out.ret.items = {"watershed", "rag", "features", "costs",
                                          "node_labels", "segmentation"}
               /\ LET b == out.ret.items
                  IN  /\ b.rag.numberOfEdges = b.watershed.E
                      /\ Len(b.costs) = b.rag.numberOfEdges
                      /\ Len(b.features.rows) = b.rag.numberOfEdges
                      /\ \A j \in 1..Len(b.costs) :
                            b.costs[j].row = b.features.rows[j] /\ b.costs[j].row = <<1, j>>
                      /\ b.node_labels = CallOf("solver").ret
                      /\ CallOf("solver").rag = b.rag
                      /\ CallOf("solver").costs = b.costs
                      /\ b.segmentation = CallOf("project_node_labels_to_pixels").ret
                      /\ CallOf("project_node_labels_to_pixels").node_labels = b.node_labels
                      /\ b.segmentation.shape = b.watershed.shape
          ELSE /\ out.ret = CallOf("project_node_labels_to_pixels").ret
               /\ out.ret.kind = "array"
               /\ CallOf("project_node_labels_to_pixels").node_labels = CallOf("solver").ret
               /\ Len(CallOf("solver").costs) = CallOf("solver").rag.numberOfEdges

\* a slice-wise call that returned the bundle for a RAG of two edges or more
C7_Witness ==
    /\ Done("multicut_segmentation") /\ out.status = "ok"
    /\ args.return_intermediates /\ args.use_2dws
    /\ Len(out.ret.items.costs) >= 2

FeatureSetAccepted == ~InvalidFeatureSet(args.feature_names, heap)

NamesTwoMismatchedShapes ==
    /\ Len(out.shapes) = 2
    /\ out.shapes[1] # out.shapes[2]
    /\ {out.shapes[1], out.shapes[2]}
           \subseteq {args.raw.shape, args.boundaries.shape, args.watershed.shape}

\* C8 as claimed: whenever the three shapes are not all equal _compute_features raises
\* an error naming the two mismatched shapes, before the RAG is built; when they are
\* equal and the feature set is accepted there is no shape error.
C8_ShapeErrorWheneverShapesDiffer ==
    Done("_compute_features")
    => (/\ ~ShapesAllEqual
           => (out.status = "error" /\ NamesTwoMismatchedShapes /\ out.calls = <<>>)
        /\ (ShapesAllEqual /\ FeatureSetAccepted) => (out.status = "ok" /\ out.shapes = <<>>))

\* C8 as amended: whenever the three shapes are not all equal _compute_features raises
\* before the RAG is built, and the error names the two mismatched shapes unless the
\* feature-name check, which runs first, has rejected the feature set; when they are
\* equal and the feature set is accepted there is no shape error.
C8_ShapeErrorAfterFeatureCheck ==
    Done("_compute_features")
    => (/\ ~ShapesAllEqual => (out.status = "error" /\ out.calls = <<>>)
        /\ (~ShapesAllEqual /\ FeatureSetAccepted)
           => (out.error = "ValueError" /\ NamesTwoMismatchedShapes)
        /\ (~ShapesAllEqual /\ ~FeatureSetAccepted)
           => (out.message = "Invalid feature set" /\ out.shapes = <<>>)
        /\ (ShapesAllEqual /\ FeatureSetAccepted) => (out.status = "ok" /\ out.shapes = <<>>))

\* raw and boundaries of one shape, the watershed of another, the feature set accepted
C8_Witness ==
    /\ Done("_compute_features")
    /\ FeatureSetAccepted
    /\ args.raw.shape = args.boundaries.shape /\ args.raw.shape # args.watershed.shape
    /\ out.status = "error" /\ out.shapes = <<args.raw.shape, args.watershed.shape>>

\* C9: slice-wise training with an ignore label: the z-mask reaching training is as
\* long as the masked features and labels and entry j describes the edge of row j, so
\* the assertions before training hold and training is reached also when the validity
\* mask drops an edge.
C9_ZMaskFollowsValidityMask ==
    (/\ Done("edge_training") /\ args.use_2dws /\ ConfiguredIgnoreLabel # None
     /\ UniformInputs /\ Samples # {}
     /\ Cardinality(KeptEdges) < Cardinality(AllEdges))
    => (/\ out.status = "ok"
        /\ Len(TrainCall.z_edges) = Len(TrainCall.features)
        /\ \A j \in 1..Len(TrainCall.features) :
               TrainCall.z_edges[j].row = TrainCall.features[j])

\* C10: after any sequence of calls with default parameters the module constants and
\* the shared default solver_kwargs dicts are what they were, DEFAULT_RF_KWARGS still
\* with its ignore_label entry.
C10_DefaultsUnchanged ==
    /\ heap.FEATURE_NAMES = FEATURE_NAMES
    /\ heap.DEFAULT_WS_KWARGS = DEFAULT_WS_KWARGS
    /\ heap.DEFAULT_RF_KWARGS = DEFAULT_RF_KWARGS
    /\ "ignore_label" \in DOMAIN heap.DEFAULT_RF_KWARGS
    /\ heap.segmentation_solver_kwargs = <<>>
    /\ heap.workflow_solver_kwargs = <<>>

\* a later call of a sequence: a workflow that trained and segmented after the first call
C10_Witness ==
    /\ ncalls >= 2
    /\ Done("multicut_workflow") /\ out.status = "ok"
    /\ \E j \in 1..Len(out.calls) :
           out.calls[j].fn \in Trainers /\ out.calls[j].features # <<>>

====
